---- MODULE Spec2Model ----
(***************************************************************************)
(* Wound report application: the App component's state (src/App.tsx), its  *)
(* event handlers, and the Wound Record Resolver (processedReports,        *)
(* isMatchingStage, getStageReports).                                      *)
(*                                                                         *)
(* A JavaScript string is a sequence of one-character strings, so that     *)
(* toLowerCase, trim, includes and template-literal concatenation are      *)
(* computed on the characters.  Enumerated values that the code only ever  *)
(* compares with === (tabs, roles, the stage argument) are plain strings;  *)
(* the opaque record ids are numbers.                                      *)
(***************************************************************************)
EXTENDS Integers, Sequences, FiniteSets, TLC

VARIABLES currentUser, activeTab, reports, editingReport, reportToDelete,
          searchQuery, stageFilter, processedReports

vars == <<currentUser, activeTab, reports, editingReport, reportToDelete,
          searchQuery, stageFilter, processedReports>>

(***************************************************************************)
(* Bounds                                                                  *)
(***************************************************************************)
\* largest length of a stored list handed to the resolver in SpecResolve
MaxInput == 2
\* number of distinct creation timestamps (100, 200, ...)
MaxTime == 2

(***************************************************************************)
(* JavaScript string primitives                                            *)
(***************************************************************************)
LowerOf ==
  [A |-> "a", B |-> "b", C |-> "c", D |-> "d", E |-> "e", F |-> "f",
   G |-> "g", H |-> "h", I |-> "i", J |-> "j", K |-> "k", L |-> "l",
   M |-> "m", N |-> "n", O |-> "o", P |-> "p", Q |-> "q", R |-> "r",
   S |-> "s", T |-> "t", U |-> "u", V |-> "v", W |-> "w", X |-> "x",
   Y |-> "y", Z |-> "z"]

\* String.prototype.toLowerCase
toLowerCase(s) ==
  [i \in 1..Len(s) |-> IF s[i] \in DOMAIN LowerOf THEN LowerOf[s[i]] ELSE s[i]]

\* String.prototype.trim: drops leading and trailing white space
trim(s) ==
  LET keep == {i \in 1..Len(s) : s[i] # " "}
  IN  IF keep = {} THEN <<>>
      ELSE LET lo == CHOOSE i \in keep : \A j \in keep : i <= j
               hi == CHOOSE i \in keep : \A j \in keep : j <= i
           IN  SubSeq(s, lo, hi)

\* String.prototype.includes: sub occurs in s as a contiguous substring
includes(s, sub) ==
  \E i \in 0..(Len(s) - Len(sub)) : \A j \in 1..Len(sub) : s[i + j] = sub[j]

(***************************************************************************)
(* Types (src/unnamed/part_001)                                            *)
(***************************************************************************)
UserRole == {"ADMIN", "NURSE", "VIEWER"}

AppTab == {"DASHBOARD", "NEW_REPORT", "HISTORY", "AI_ASSISTANT"}

\* WoundReport | null : <<>> is null, <<r>> is the report r
Null == <<>>

(***************************************************************************)
(* isMatchingStage (src/App.tsx 63-83)                                     *)
(***************************************************************************)
isAnyStage(s) ==
  \/ includes(s, <<"s", "t", "a", "g", "e", " ", "1">>)
  \/ includes(s, <<"s", "t", "a", "g", "e", " ", "i">>)
  \/ includes(s, <<"s", "t", "a", "g", "e", " ", "2">>)
  \/ includes(s, <<"s", "t", "a", "g", "e", " ", "i", "i">>)
  \/ includes(s, <<"s", "t", "a", "g", "e", " ", "3">>)
  \/ includes(s, <<"s", "t", "a", "g", "e", " ", "i", "i", "i">>)
  \/ includes(s, <<"s", "t", "a", "g", "e", " ", "4">>)
  \/ includes(s, <<"s", "t", "a", "g", "e", " ", "i", "v">>)
  \/ includes(s, <<"u", "n", "s", "t", "a", "g", "e", "a", "b", "l", "e">>)

\* mutant of isStaged: the isNoStage flag is not consulted
isStagedIgnoringFlag(r, s) == isAnyStage(s)

\* stage === 'staged' (line 73)
isStaged(r, s) == isAnyStage(s) /\ ~r.isNoStage

\* mutant of isNone: the isNoStage flag is not consulted
isNoneIgnoringFlag(r, s) == ~isAnyStage(s)

\* stage === 'none' (line 74)
isNone(r, s) == r.isNoStage \/ ~isAnyStage(s)

\* mutant of isStage1: the "ii" guard is missing
isStage1Unguarded(s) ==
  \/ includes(s, <<"s", "t", "a", "g", "e", " ", "1">>)
  \/ includes(s, <<"s", "t", "a", "g", "e", " ", "i">>)

\* stage === '1' (line 76)
isStage1(s) ==
  \/ includes(s, <<"s", "t", "a", "g", "e", " ", "1">>)
  \/ /\ includes(s, <<"s", "t", "a", "g", "e", " ", "i">>)
     /\ ~includes(s, <<"i", "i">>)

\* mutant of isStage2: only the Roman numeral is recognised
isStage2RomanOnly(s) ==
  includes(s, <<"s", "t", "a", "g", "e", " ", "i", "i">>)

\* stage === '2' (line 77)
isStage2(s) ==
  \/ includes(s, <<"s", "t", "a", "g", "e", " ", "2">>)
  \/ includes(s, <<"s", "t", "a", "g", "e", " ", "i", "i">>)

\* mutant of isStage3: only the Arabic digit is recognised
isStage3ArabicOnly(s) ==
  includes(s, <<"s", "t", "a", "g", "e", " ", "3">>)

\* stage === '3' (line 78)
isStage3(s) ==
  \/ includes(s, <<"s", "t", "a", "g", "e", " ", "3">>)
  \/ includes(s, <<"s", "t", "a", "g", "e", " ", "i", "i", "i">>)

\* stage === '4' (line 79)
isStage4(s) ==
  \/ includes(s, <<"s", "t", "a", "g", "e", " ", "4">>)
  \/ includes(s, <<"s", "t", "a", "g", "e", " ", "i", "v">>)

\* stage === 'unstageable' (line 80)
isUnstageable(s) ==
  includes(s, <<"u", "n", "s", "t", "a", "g", "e", "a", "b", "l", "e">>)

isMatchingStage(r, stage) ==
  LET s == toLowerCase(r.typeStage)
  IN  IF stage = "all" THEN TRUE
      ELSE IF stage = "staged" THEN isStaged(r, s)
      ELSE IF stage = "none" THEN isNone(r, s)
      ELSE IF stage = "1" THEN isStage1(s)
      ELSE IF stage = "2" THEN isStage2(s)
      ELSE IF stage = "3" THEN isStage3(s)
      ELSE IF stage = "4" THEN isStage4(s)
      ELSE IF stage = "unstageable" THEN isUnstageable(s)
      ELSE FALSE

(***************************************************************************)
(* processedReports (src/App.tsx 88-113)                                   *)
(***************************************************************************)
\* mutant of sortByCreatedAtDesc: the comparator is a.createdAt - b.createdAt
RECURSIVE sortByCreatedAtAsc(_)
sortByCreatedAtAsc(list) ==
  IF list = <<>> THEN <<>>
  ELSE LET front == sortByCreatedAtAsc(SubSeq(list, 1, Len(list) - 1))
           r     == list[Len(list)]
           k     == Cardinality({i \in 1..Len(front) :
                                   front[i].createdAt <= r.createdAt})
       IN  SubSeq(front, 1, k) \o <<r>> \o SubSeq(front, k + 1, Len(front))

\* Array.prototype.sort((a, b) => b.createdAt - a.createdAt): a stable sort,
\* greatest createdAt first, equal createdAt in their original order
RECURSIVE sortByCreatedAtDesc(_)
sortByCreatedAtDesc(list) ==
  IF list = <<>> THEN <<>>
  ELSE LET front == sortByCreatedAtDesc(SubSeq(list, 1, Len(list) - 1))
           r     == list[Len(list)]
           k     == Cardinality({i \in 1..Len(front) :
                                   front[i].createdAt >= r.createdAt})
       IN  SubSeq(front, 1, k) \o <<r>> \o SubSeq(front, k + 1, Len(front))

\* the template literal `${patientName}|${roomNo}|${site}` of lower-cased,
\* trimmed fields
woundKey(r) ==
  trim(toLowerCase(r.patientName)) \o <<"|">> \o
  trim(toLowerCase(r.roomNo)) \o <<"|">> \o
  trim(toLowerCase(r.site))

\* mutant of woundMap: woundMap.set(key, r) without the has(key) test, so
\* the last report seen for a key replaces the first
RECURSIVE woundMapLastWins(_)
woundMapLastWins(sortedAll) ==
  IF sortedAll = <<>> THEN <<>>
  ELSE LET map == woundMapLastWins(SubSeq(sortedAll, 1, Len(sortedAll) - 1))
           r   == sortedAll[Len(sortedAll)]
           key == woundKey(r)
       IN  IF \E i \in 1..Len(map) : map[i].key = key
           THEN [i \in 1..Len(map) |->
                   IF map[i].key = key THEN [key |-> key, value |-> r]
                   ELSE map[i]]
           ELSE Append(map, [key |-> key, value |-> r])

\* sortedAll.forEach: the Map, as its entries in insertion order, keeps the
\* first report seen for each key
RECURSIVE woundMap(_)
woundMap(sortedAll) ==
  IF sortedAll = <<>> THEN <<>>
  ELSE LET map == woundMap(SubSeq(sortedAll, 1, Len(sortedAll) - 1))
           r   == sortedAll[Len(sortedAll)]
           key == woundKey(r)
       IN  IF \E i \in 1..Len(map) : map[i].key = key
           THEN map
           ELSE Append(map, [key |-> key, value |-> r])

\* Array.from(woundMap.values())
uniqueWounds(sortedAll) ==
  LET map == woundMap(sortedAll)
  IN  [i \in 1..Len(map) |-> map[i].value]

\* mutant of queryMatch: the fields are compared without lower-casing
queryMatchCaseSensitive(r, query) ==
  \/ includes(r.patientName, toLowerCase(query))
  \/ includes(r.roomNo, toLowerCase(query))
  \/ includes(r.facHosp, toLowerCase(query))
  \/ includes(r.site, toLowerCase(query))

\* the filter callback's queryMatch (lines 104-107)
queryMatch(r, query) ==
  \/ includes(toLowerCase(r.patientName), toLowerCase(query))
  \/ includes(toLowerCase(r.roomNo), toLowerCase(query))
  \/ includes(toLowerCase(r.facHosp), toLowerCase(query))
  \/ includes(toLowerCase(r.site), toLowerCase(query))

\* mutant of resolve: the search and stage filters run before deduplication
resolveFilterFirst(allReports, query, stage) ==
  sortByCreatedAtDesc(
    uniqueWounds(sortByCreatedAtDesc(
      SelectSeq(allReports,
                LAMBDA r : queryMatch(r, query) /\ isMatchingStage(r, stage)))))

\* the useMemo body: the spec's resolve(allReports, searchQuery, stageFilter)
resolve(allReports, query, stage) ==
  sortByCreatedAtDesc(
    SelectSeq(uniqueWounds(sortByCreatedAtDesc(allReports)),
              LAMBDA r : queryMatch(r, query) /\ isMatchingStage(r, stage)))

\* mutant of reportsAfterResolve: reports.sort(...) without the spread copy
\* reorders the state array in place
reportsSortedInPlace(allReports) == sortByCreatedAtDesc(allReports)

\* the state array after the useMemo body has run: line 92 sorts the copy
\* [...reports], and filter() returns a new array before line 112 sorts it,
\* so the array held in the reports state keeps its elements and order
reportsAfterResolve(allReports) == allReports

\* mutant of getStageReports: the raw store is filtered
getStageReportsFromStore(stage) ==
  SelectSeq(reports, LAMBDA r : isMatchingStage(r, stage))

\* getStageReports (src/App.tsx 115-117): filters the memoised list
getStageReports(stage) ==
  SelectSeq(processedReports, LAMBDA r : isMatchingStage(r, stage))

canModify == currentUser \in {"ADMIN", "NURSE"}

canDelete == currentUser = "ADMIN"

canAccessAI == currentUser \in {"ADMIN", "NURSE"}

availableTabs ==
  {"DASHBOARD", "HISTORY"}
    \cup (IF canModify THEN {"NEW_REPORT"} ELSE {})
    \cup (IF canAccessAI THEN {"AI_ASSISTANT"} ELSE {})

(***************************************************************************)
(* storageService: the report store behind getAllReports, keyed by id      *)
(***************************************************************************)
hasId(list, id) == \E i \in 1..Len(list) : list[i].id = id

\* saveReport: the new record is added to the stored list
saveReport(list, report) == Append(list, report)

\* updateReport: the record with the same id is replaced as a whole
updateReport(list, report) ==
  [i \in 1..Len(list) |-> IF list[i].id = report.id THEN report ELSE list[i]]

\* deleteReport: the record with that id is dropped
deleteReport(list, id) == SelectSeq(list, LAMBDA r : r.id # id)

(***************************************************************************)
(* Inputs                                                                  *)
(***************************************************************************)
Text ==
  [JaneDoe       |-> <<"J", "a", "n", "e", " ", "D", "o", "e">>,
   janedoe       |-> <<"j", "a", "n", "e", " ", "d", "o", "e">>,
   JaneDoePadded |-> <<" ", "J", "a", "n", "e", " ", "D", "o", "e", " ">>,
   Al            |-> <<"A", "l">>,
   PipeAB        |-> <<"a", "|", "b">>,
   PipeA         |-> <<"a">>,
   PipeC         |-> <<"c">>,
   PipeBC        |-> <<"b", "|", "c">>,
   Room4B        |-> <<"4", "B">>,
   Room4b        |-> <<"4", "b">>,
   Room4BPadded  |-> <<"4", "B", " ">>,
   Room7         |-> <<"7">>,
   Heel          |-> <<"H", "e", "e", "l">>,
   heel          |-> <<"h", "e", "e", "l">>,
   HeelPadded    |-> <<" ", "H", "e", "e", "l">>,
   Toe           |-> <<"T", "o", "e">>,
   General       |-> <<"G", "e", "n", "e", "r", "a", "l">>,
   Mercy         |-> <<"M", "e", "r", "c", "y">>,
   Empty         |-> <<>>,
   Stage1        |-> <<"S", "t", "a", "g", "e", " ", "1">>,
   Stage2        |-> <<"S", "t", "a", "g", "e", " ", "2">>,
   Stage3        |-> <<"S", "t", "a", "g", "e", " ", "3">>,
   Stage4        |-> <<"S", "t", "a", "g", "e", " ", "4">>,
   StageI        |-> <<"S", "t", "a", "g", "e", " ", "I">>,
   StageII       |-> <<"S", "t", "a", "g", "e", " ", "I", "I">>,
   StageIII      |-> <<"S", "t", "a", "g", "e", " ", "I", "I", "I">>,
   StageIV       |-> <<"S", "t", "a", "g", "e", " ", "I", "V">>,
   stage_i       |-> <<"s", "t", "a", "g", "e", " ", "i">>,
   STAGE_II      |-> <<"S", "T", "A", "G", "E", " ", "I", "I">>,
   stage_iii     |-> <<"s", "t", "a", "g", "e", " ", "i", "i", "i">>,
   STAGE_IV      |-> <<"S", "T", "A", "G", "E", " ", "I", "V">>,
   Unstageable   |-> <<"U", "n", "s", "t", "a", "g", "e", "a", "b", "l", "e">>,
   UNSTAGEABLE   |-> <<"U", "N", "S", "T", "A", "G", "E", "A", "B", "L", "E">>,
   SkinTear      |-> <<"S", "k", "i", "n", " ", "T", "e", "a", "r">>,
   Stage2Sacral  |-> <<"S", "a", "c", "r", "a", "l", " ", "s", "t", "a", "g",
                       "e", " ", "2", " ", "u", "l", "c", "e", "r">>,
   StageIRadii   |-> <<"S", "t", "a", "g", "e", " ", "I", " ", "r", "a", "d",
                       "i", "i">>,
   Stage1Radii   |-> <<"S", "t", "a", "g", "e", " ", "1", " ", "r", "a", "d",
                       "i", "i">>,
   Stage         |-> <<"S", "t", "a", "g", "e">>,
   q4b           |-> <<"4", "b">>,
   qMERCY        |-> <<"M", "E", "R", "C", "Y">>]

\* the fields of a WoundReport that the App component reads
WoundReport(id, name, room, fac, site, label, flag, created) ==
  [id |-> id, patientName |-> name, roomNo |-> room, facHosp |-> fac,
   site |-> site, typeStage |-> label, isNoStage |-> flag,
   createdAt |-> created]

\* creation timestamps (epoch milliseconds) of the stored lists of SpecResolve
Times == {100 * k : k \in 1..MaxTime}

\* creation timestamps that the entry form submits in Spec
UiTimes == {100, 200}

\* record identifiers (opaque) that the entry form submits in Spec
Ids == {1, 2}

\* what the entry form can hold: <<patientName, roomNo, facHosp, site,
\* typeStage, isNoStage>>
ResolveForms ==
  {<<Text.JaneDoe, Text.Room4B, Text.General, Text.Heel, Text.Stage2, FALSE>>,
   <<Text.janedoe, Text.Room4b, Text.General, Text.heel, Text.Stage3, FALSE>>,
   <<Text.JaneDoePadded, Text.Room4BPadded, Text.Mercy, Text.HeelPadded,
     Text.Stage2, TRUE>>,
   <<Text.PipeAB, Text.PipeC, Text.Empty, Text.Toe, Text.StageIV, FALSE>>,
   <<Text.PipeA, Text.PipeBC, Text.Empty, Text.Toe, Text.StageI, FALSE>>}

StageLabels ==
  {Text.Stage1, Text.Stage2, Text.Stage3, Text.Stage4,
   Text.StageI, Text.StageII, Text.StageIII, Text.StageIV,
   Text.stage_i, Text.STAGE_II, Text.stage_iii, Text.STAGE_IV,
   Text.Unstageable, Text.UNSTAGEABLE, Text.SkinTear, Text.Empty,
   Text.Stage2Sacral, Text.StageIRadii, Text.Stage1Radii, Text.Stage}

StageForms ==
  {<<Text.Al, Text.Room7, Text.Mercy, Text.Heel, label, flag>> :
     label \in StageLabels, flag \in BOOLEAN}

UiForms ==
  {<<Text.JaneDoe, Text.Room4B, Text.General, Text.Heel, Text.Stage2, FALSE>>,
   <<Text.janedoe, Text.Room4b, Text.General, Text.heel, Text.StageIII, FALSE>>,
   <<Text.Al, Text.Room7, Text.Mercy, Text.Toe, Text.Stage2, TRUE>>}

fromForm(id, form, createdAt) ==
  WoundReport(id, form[1], form[2], form[3], form[4], form[5], form[6],
              createdAt)

\* stored lists of exactly n reports; the i-th has id i
RECURSIVE StoredLists(_, _, _)
StoredLists(forms, times, n) ==
  IF n = 0 THEN {<<>>}
  ELSE {Append(list, fromForm(n, form, t)) :
          list \in StoredLists(forms, times, n - 1), form \in forms,
          t \in times}

ResolveInputs ==
  UNION {StoredLists(ResolveForms, Times, n) : n \in 0..MaxInput}
    \cup StoredLists(StageForms, {100}, 1)

ResolveQueries == {Text.Empty, Text.q4b, Text.qMERCY}

UiQueries == {Text.Empty, Text.q4b}

\* the options of the stage <select> (src/App.tsx 357-359)
StageFilters == {"all", "staged", "none"}

\* the arguments isMatchingStage is called with
StageBuckets == {"1", "2", "3", "4", "unstageable", "none"}

(***************************************************************************)
(* Event handlers                                                          *)
(***************************************************************************)
\* re-render after a change of reports, searchQuery or stageFilter: useMemo
\* recomputes processedReports from the new state; a render that changes
\* none of the three dependencies keeps the memoised list
Render(newReports) ==
  /\ reports' = reportsAfterResolve(newReports)
  /\ processedReports' = resolve(newReports, searchQuery', stageFilter')

\* ReportForm onSubmit (src/App.tsx 331) -> handleSaveReport (32-42)
handleSaveReport(report) ==
  /\ activeTab = "NEW_REPORT"
  /\ canModify
  /\ editingReport' = Null
  /\ activeTab' = "HISTORY"
  /\ UNCHANGED <<currentUser, reportToDelete, searchQuery, stageFilter>>
  /\ Render(IF hasId(reports, report.id)
            THEN updateReport(reports, report)
            ELSE saveReport(reports, report))

\* mutant of handleDeleteClick: the role test of line 45 is missing
handleDeleteClickUnguarded(report) ==
  /\ reportToDelete' = <<report>>
  /\ UNCHANGED <<currentUser, activeTab, reports, editingReport, searchQuery,
                 stageFilter, processedReports>>

\* handleDeleteClick (src/App.tsx 44-47)
handleDeleteClick(report) ==
  /\ reportToDelete' = IF currentUser # "ADMIN" THEN reportToDelete
                       ELSE <<report>>
  /\ UNCHANGED <<currentUser, activeTab, reports, editingReport, searchQuery,
                 stageFilter, processedReports>>

\* delete button of a row of the Records History table, rendered for a
\* user who can delete (src/App.tsx 439-440)
rowDeleteButton(report) ==
  /\ activeTab = "HISTORY"
  /\ canDelete
  /\ handleDeleteClick(report)

\* DeleteConfirmationModal onConfirm -> confirmDelete (49-55)
confirmDelete ==
  /\ IF reportToDelete # Null
     THEN /\ reportToDelete' = Null
          /\ UNCHANGED <<searchQuery, stageFilter>>
          /\ Render(deleteReport(reports, reportToDelete[1].id))
     ELSE UNCHANGED <<reports, reportToDelete, searchQuery, stageFilter,
                      processedReports>>
  /\ UNCHANGED <<currentUser, activeTab, editingReport>>

\* DeleteConfirmationModal onClose (src/App.tsx 158)
closeDeleteModal ==
  /\ reportToDelete' = Null
  /\ UNCHANGED <<currentUser, activeTab, reports, editingReport, searchQuery,
                 stageFilter, processedReports>>

\* handleEdit (src/App.tsx 57-61)
handleEdit(report) ==
  /\ IF currentUser = "VIEWER"
     THEN UNCHANGED <<editingReport, activeTab>>
     ELSE /\ editingReport' = <<report>>
          /\ activeTab' = "NEW_REPORT"
  /\ UNCHANGED <<currentUser, reports, reportToDelete, searchQuery,
                 stageFilter, processedReports>>

\* edit button of a row of the Records History table, rendered for a user
\* who can modify (src/App.tsx 432-433)
rowEditButton(report) ==
  /\ activeTab = "HISTORY"
  /\ canModify
  /\ handleEdit(report)

\* mutant of tabClick: the tab changes and editingReport is kept
tabClickKeepsEditing(tab) ==
  /\ tab \in availableTabs
  /\ activeTab' = tab
  /\ UNCHANGED <<currentUser, reports, editingReport, reportToDelete,
                 searchQuery, stageFilter, processedReports>>

\* tab bar button (src/App.tsx 201-205)
tabClick(tab) ==
  /\ tab \in availableTabs
  /\ activeTab' = tab
  /\ editingReport' = IF tab # "NEW_REPORT" THEN Null ELSE editingReport
  /\ UNCHANGED <<currentUser, reports, reportToDelete, searchQuery,
                 stageFilter, processedReports>>

\* dashboard 'Open AI Portal' button (src/App.tsx 229)
openAIPortal ==
  /\ activeTab = "DASHBOARD"
  /\ activeTab' = "AI_ASSISTANT"
  /\ UNCHANGED <<currentUser, reports, editingReport, reportToDelete,
                 searchQuery, stageFilter, processedReports>>

\* stage <select> onChange (src/App.tsx 352-354)
setStageFilter(value) ==
  /\ activeTab = "HISTORY"
  /\ stageFilter' = value
  /\ UNCHANGED <<currentUser, activeTab, editingReport, reportToDelete,
                 searchQuery>>
  /\ Render(reports)

\* search <input> onChange (src/App.tsx 365-368)
setSearchQuery(value) ==
  /\ activeTab = "HISTORY"
  /\ searchQuery' = value
  /\ UNCHANGED <<currentUser, activeTab, editingReport, reportToDelete,
                 stageFilter>>
  /\ Render(reports)

\* 'Reset All Filters' button of the empty table (src/App.tsx 450-456)
resetAllFilters ==
  /\ activeTab = "HISTORY"
  /\ Len(processedReports) = 0
  /\ searchQuery' = <<>>
  /\ stageFilter' = "all"
  /\ UNCHANGED <<currentUser, activeTab, editingReport, reportToDelete>>
  /\ Render(reports)

(***************************************************************************)
(* Spec: the App component from its first render on an empty store         *)
(***************************************************************************)
Init ==
  /\ currentUser = "ADMIN"
  /\ activeTab = "DASHBOARD"
  /\ reports = <<>>
  /\ editingReport = Null
  /\ reportToDelete = Null
  /\ searchQuery = <<>>
  /\ stageFilter = "all"
  /\ processedReports = resolve(reports, searchQuery, stageFilter)

Next ==
  \/ \E id \in Ids, form \in UiForms, t \in UiTimes :
       handleSaveReport(fromForm(id, form, t))
  \/ \E i \in 1..Len(processedReports) : rowDeleteButton(processedReports[i])
  \/ confirmDelete
  \/ closeDeleteModal
  \/ \E i \in 1..Len(processedReports) : rowEditButton(processedReports[i])
  \/ \E tab \in AppTab : tabClick(tab)
  \/ openAIPortal
  \/ \E value \in StageFilters : setStageFilter(value)
  \/ \E value \in UiQueries : setSearchQuery(value)
  \/ resetAllFilters

Spec == Init /\ [][Next]_vars

(***************************************************************************)
(* SpecResolve: the resolver applied to every stored list of ResolveInputs *)
(* under every search query and stage filter of the Records History tab    *)
(***************************************************************************)
InitResolve ==
  /\ currentUser = "ADMIN"
  /\ activeTab = "HISTORY"
  /\ reports \in ResolveInputs
  /\ editingReport = Null
  /\ reportToDelete = Null
  /\ searchQuery = <<>>
  /\ stageFilter = "all"
  /\ processedReports = resolve(reports, searchQuery, stageFilter)

NextResolve ==
  \/ \E value \in StageFilters : setStageFilter(value)
  \/ \E value \in ResolveQueries : setSearchQuery(value)
  \/ resetAllFilters

SpecResolve == InitResolve /\ [][NextResolve]_vars

(***************************************************************************)
(* SpecRoles: a session of a user of any role over a store persisted by    *)
(* earlier sessions; handleDeleteClick and handleEdit are called on the    *)
(* rows of the Records History table whatever the role, so that their own  *)
(* role tests decide                                                       *)
(***************************************************************************)
\* createdAt of the reports a previous session left in the store
PersistedTimes == {300}

\* storageService.getAllReports() of the mount effect (src/App.tsx 28-30)
PersistedStores ==
  UNION {StoredLists(UiForms, PersistedTimes, n) : n \in 0..2}

\* the reports the entry form submits
SubmittedReports ==
  {fromForm(id, form, t) : id \in Ids, form \in UiForms, t \in UiTimes}

InitRoles ==
  /\ currentUser \in UserRole
  /\ activeTab = "DASHBOARD"
  /\ reports \in PersistedStores
  /\ editingReport = Null
  /\ reportToDelete = Null
  /\ searchQuery = <<>>
  /\ stageFilter = "all"
  /\ processedReports = resolve(reports, searchQuery, stageFilter)

NextRoles ==
  \/ \E report \in SubmittedReports : handleSaveReport(report)
  \/ \E i \in 1..Len(processedReports) :
       activeTab = "HISTORY" /\ handleDeleteClick(processedReports[i])
  \/ confirmDelete
  \/ closeDeleteModal
  \/ \E i \in 1..Len(processedReports) :
       activeTab = "HISTORY" /\ handleEdit(processedReports[i])
  \/ \E tab \in AppTab : tabClick(tab)
  \/ openAIPortal

SpecRoles == InitRoles /\ [][NextRoles]_vars

(***************************************************************************)
(* Properties                                                              *)
(***************************************************************************)
Range(list) == {list[i] : i \in 1..Len(list)}

\* the Logical Wound Identity of the data model: the lower-cased, trimmed
\* triple (patient name, room number, site)
LogicalWoundIdentity(r) ==
  <<trim(toLowerCase(r.patientName)), trim(toLowerCase(r.roomNo)),
    trim(toLowerCase(r.site))>>

Unfiltered == searchQuery = <<>> /\ stageFilter = "all"

\* C1: with the empty search and the filter 'all', the resolved list holds
\* only reports of the store, exactly one for each logical wound identity in
\* the store, and the one kept has the greatest createdAt of its identity.
C1_OnePerIdentityLatest ==
  Unfiltered =>
    /\ \A i \in 1..Len(processedReports) :
         processedReports[i] \in Range(reports)
    /\ \A r \in Range(reports) :
         Cardinality({i \in 1..Len(processedReports) :
                        LogicalWoundIdentity(processedReports[i])
                          = LogicalWoundIdentity(r)}) = 1
    /\ \A i \in 1..Len(processedReports) : \A r \in Range(reports) :
         LogicalWoundIdentity(r) = LogicalWoundIdentity(processedReports[i])
           => r.createdAt <= processedReports[i].createdAt

\* C2: the resolved list is in non-increasing order of createdAt, whatever
\* the stored list, the search query and the stage filter are.
C2_SortedDescending ==
  \A i \in 1..Len(processedReports) : \A j \in 1..Len(processedReports) :
    i < j => processedReports[i].createdAt >= processedReports[j].createdAt

\* a stored list in ascending order whose two wounds both survive the
\* filters and come out newest first
C2_Witness ==
  /\ Len(reports) = 2
  /\ reports[1].createdAt < reports[2].createdAt
  /\ ~Unfiltered
  /\ processedReports = <<reports[2], reports[1]>>

ReportA ==
  WoundReport(1, Text.JaneDoe, Text.Room4B, Text.General, Text.Heel,
              Text.Stage2, FALSE, 100)

ReportB ==
  WoundReport(2, Text.janedoe, Text.Room4b, Text.General, Text.heel,
              Text.Stage3, FALSE, 200)

\* C3: two stored reports are collapsed into one wound exactly when their
\* lower-cased, trimmed (patient name, room number, site) triples are equal;
\* the reports A and B of the example resolve to B alone, and B passes the
\* stage predicate '3'.
C3_SameWoundIffSameIdentity ==
  /\ (Unfiltered /\ Len(reports) = 2) =>
       (Len(processedReports) = 1
          <=> LogicalWoundIdentity(reports[1])
                = LogicalWoundIdentity(reports[2]))
  /\ (Unfiltered /\ reports = <<ReportA, ReportB>>) =>
       /\ processedReports = <<ReportB>>
       /\ isMatchingStage(ReportB, "3")

\* C4: a report whose isNoStage flag is set passes the 'none' predicate and
\* fails the 'staged' predicate whatever its label is, so the filter
\* 'staged' never lists it.
C4_NoStageFlagIsNone ==
  /\ \A r \in Range(reports) :
       r.isNoStage =>
         isMatchingStage(r, "none") /\ ~isMatchingStage(r, "staged")
  /\ stageFilter = "staged" =>
       \A i \in 1..Len(processedReports) : ~processedReports[i].isNoStage

\* a flagged report labelled "Stage 2" is listed under the filter 'none'
C4_Witness ==
  /\ stageFilter = "none"
  /\ \E i \in 1..Len(processedReports) :
       /\ processedReports[i].isNoStage
       /\ processedReports[i].typeStage = Text.Stage2

\* C5: a report whose label contains "stage 2" in any letter case and whose
\* isNoStage flag is clear passes '2' and 'staged' and does not pass 'none'.
C5_Stage2Unflagged ==
  \A r \in Range(reports) :
    (includes(toLowerCase(r.typeStage), <<"s", "t", "a", "g", "e", " ", "2">>)
       /\ ~r.isNoStage)
      => /\ isMatchingStage(r, "2")
         /\ isMatchingStage(r, "staged")
         /\ ~isMatchingStage(r, "none")

\* an unflagged report labelled "Sacral stage 2 ulcer" is listed under the
\* filter 'staged'
C5_Witness ==
  /\ stageFilter = "staged"
  /\ \E i \in 1..Len(processedReports) :
       /\ ~processedReports[i].isNoStage
       /\ processedReports[i].typeStage = Text.Stage2Sacral

\* the label "Stage n" in Arabic digits and in Roman numerals, lower-cased
StageNLabels ==
  [n \in {"1", "2", "3", "4"} |->
     CASE n = "1" -> {<<"s", "t", "a", "g", "e", " ", "1">>,
                      <<"s", "t", "a", "g", "e", " ", "i">>}
       [] n = "2" -> {<<"s", "t", "a", "g", "e", " ", "2">>,
                      <<"s", "t", "a", "g", "e", " ", "i", "i">>}
       [] n = "3" -> {<<"s", "t", "a", "g", "e", " ", "3">>,
                      <<"s", "t", "a", "g", "e", " ", "i", "i", "i">>}
       [] n = "4" -> {<<"s", "t", "a", "g", "e", " ", "4">>,
                      <<"s", "t", "a", "g", "e", " ", "i", "v">>}]

\* C6: for n in 1..4 a report labelled "Stage n", with the Arabic digit or
\* the Roman numeral and in any letter case, passes the predicate of bucket
\* n; a label containing "unstageable" passes 'unstageable'; "Stage III"
\* passes '3'.
C6_StageNPassesBucketN ==
  \A r \in Range(reports) :
    /\ \A n \in DOMAIN StageNLabels :
         toLowerCase(r.typeStage) \in StageNLabels[n] => isMatchingStage(r, n)
    /\ includes(toLowerCase(r.typeStage),
                <<"u", "n", "s", "t", "a", "g", "e", "a", "b", "l", "e">>)
         => isMatchingStage(r, "unstageable")
    /\ r.typeStage = Text.StageIII => isMatchingStage(r, "3")

\* under the filter 'staged' the bucket '3' lists a report labelled
\* "Stage III"
C6_Witness ==
  /\ stageFilter = "staged"
  /\ \E i \in 1..Len(getStageReports("3")) :
       getStageReports("3")[i].typeStage = Text.StageIII

\* the deduplicated list, before the search and the stage filter
Deduplicated == resolve(reports, <<>>, "all")

\* the search predicate as the component design states it
SearchHit(r, query) ==
  \E field \in {r.patientName, r.roomNo, r.facHosp, r.site} :
    includes(toLowerCase(field), toLowerCase(query))

\* C7: under the filter 'all', a deduplicated report is listed if and only
\* if the lower-cased query is a substring of its lower-cased patient name,
\* room number, facility name or site; the empty query lists every
\* deduplicated report and the query "4b" lists the reports of room "4B".
C7_SearchPredicate ==
  stageFilter = "all" =>
    /\ \A r \in Range(Deduplicated) :
         r \in Range(processedReports) <=> SearchHit(r, searchQuery)
    /\ searchQuery = <<>> => processedReports = Deduplicated
    /\ searchQuery = Text.q4b =>
         \A r \in Range(Deduplicated) :
           r.roomNo = Text.Room4B => r \in Range(processedReports)

\* the query "4b" lists a report of room "4B" and leaves another wound out
C7_Witness ==
  /\ stageFilter = "all"
  /\ searchQuery = Text.q4b
  /\ \E r \in Range(processedReports) : r.roomNo = Text.Room4B
  /\ \E r \in Range(Deduplicated) : r \notin Range(processedReports)

\* the recognised category substrings of the stage classification
RecognisedCategories ==
  {<<"s", "t", "a", "g", "e", " ", "1">>,
   <<"s", "t", "a", "g", "e", " ", "i">>,
   <<"s", "t", "a", "g", "e", " ", "2">>,
   <<"s", "t", "a", "g", "e", " ", "i", "i">>,
   <<"s", "t", "a", "g", "e", " ", "3">>,
   <<"s", "t", "a", "g", "e", " ", "i", "i", "i">>,
   <<"s", "t", "a", "g", "e", " ", "4">>,
   <<"s", "t", "a", "g", "e", " ", "i", "v">>,
   <<"u", "n", "s", "t", "a", "g", "e", "a", "b", "l", "e">>}

MatchesCategory(r) ==
  \E c \in RecognisedCategories : includes(toLowerCase(r.typeStage), c)

\* C8: 'staged' holds exactly when the label matches a recognised category
\* and isNoStage is clear, 'none' holds exactly when isNoStage is set or the
\* label matches no category, every report passes exactly one of the two,
\* and 'all' passes every report.
C8_StagedNonePartition ==
  \A r \in Range(reports) :
    /\ isMatchingStage(r, "staged") <=> (MatchesCategory(r) /\ ~r.isNoStage)
    /\ isMatchingStage(r, "none") <=> (r.isNoStage \/ ~MatchesCategory(r))
    /\ isMatchingStage(r, "staged") # isMatchingStage(r, "none")
    /\ isMatchingStage(r, "all")

\* a flagged report with a recognised label is listed under 'none'
C8_Witness ==
  /\ stageFilter = "none"
  /\ \E i \in 1..Len(processedReports) :
       processedReports[i].isNoStage /\ MatchesCategory(processedReports[i])

\* C9: a report whose label contains "stage i" but not "stage 1" passes the
\* predicate '1' only if the label contains no "ii"; the label "Stage II"
\* never passes '1'.
C9_Stage1Guard ==
  \A r \in Range(reports) :
    LET s == toLowerCase(r.typeStage)
    IN  /\ (includes(s, <<"s", "t", "a", "g", "e", " ", "i">>)
              /\ ~includes(s, <<"s", "t", "a", "g", "e", " ", "1">>)
              /\ isMatchingStage(r, "1"))
             => ~includes(s, <<"i", "i">>)
        /\ r.typeStage = Text.StageII => ~isMatchingStage(r, "1")

\* under the filter 'staged' a report labelled "Stage II" is listed by the
\* bucket '2' and not by the bucket '1'
C9_Witness ==
  /\ stageFilter = "staged"
  /\ \E r \in Range(getStageReports("2")) :
       r.typeStage = Text.StageII /\ r \notin Range(getStageReports("1"))

\* C10: for every stage bucket, getStageReports(stage) is a sub-sequence of
\* the resolved list, holds at most one report for a logical wound identity,
\* and holds no snapshot that a later snapshot of the same wound in the
\* store supersedes.
C10_StageReportsDeduplicated ==
  \A stage \in StageBuckets \cup {"staged"} :
    LET listed == getStageReports(stage)
    IN  /\ listed = SelectSeq(processedReports,
                              LAMBDA r : r \in Range(listed))
        /\ \A i \in 1..Len(listed) : \A j \in 1..Len(listed) :
             i # j => LogicalWoundIdentity(listed[i])
                        # LogicalWoundIdentity(listed[j])
        /\ \A i \in 1..Len(listed) : \A r \in Range(reports) :
             LogicalWoundIdentity(r) = LogicalWoundIdentity(listed[i])
               => r.createdAt <= listed[i].createdAt

\* under the query "4b" the store holds an older and a newer snapshot of
\* one wound, and the bucket '3' lists the newer one
C10_Witness ==
  /\ searchQuery = Text.q4b
  /\ \E r \in Range(reports) : \E i \in 1..Len(getStageReports("3")) :
       /\ LogicalWoundIdentity(r)
            = LogicalWoundIdentity(getStageReports("3")[i])
       /\ r.createdAt < getStageReports("3")[i].createdAt
       /\ isMatchingStage(r, "2")

\* C11: a step that recomputes the resolved view leaves the stored list as
\* it was, with the same reports in the same order and the same field
\* values, and changes none of currentUser, activeTab, editingReport and
\* reportToDelete; the new view is the resolve of that unchanged list.
C11_ResolveLeavesStoreUnchanged ==
  [][/\ reports' = reports
     /\ UNCHANGED <<currentUser, activeTab, editingReport, reportToDelete>>
     /\ processedReports' = resolve(reports, searchQuery', stageFilter')]_vars

\* a stored list in ascending order has been resolved under the filter
\* 'staged' and is still in ascending order, next to its newest-first view
C11_Witness ==
  /\ Len(reports) = 2
  /\ reports[1].createdAt < reports[2].createdAt
  /\ stageFilter = "staged"
  /\ Len(processedReports) = 2
  /\ processedReports[1] = reports[2]

SameWound(a, b) == LogicalWoundIdentity(a) = LogicalWoundIdentity(b)

\* the stored snapshots of the wound of r with the greatest createdAt
LatestSnapshots(r) ==
  {x \in Range(reports) :
     /\ SameWound(x, r)
     /\ \A y \in Range(reports) : SameWound(y, r) => y.createdAt <= x.createdAt}

PassesFilters(r) ==
  queryMatch(r, searchQuery) /\ isMatchingStage(r, stageFilter)

\* C12: deduplication comes before filtering: when the latest snapshot of a
\* wound fails the search query or the stage filter, the resolved list holds
\* no snapshot of that wound, even if an older snapshot passes both.
C12_DedupBeforeFilter ==
  \A r \in Range(reports) :
    (\A x \in LatestSnapshots(r) : ~PassesFilters(x))
      => \A p \in Range(processedReports) : ~SameWound(p, r)

\* an older snapshot passes the query and the filter, the newer snapshot of
\* the same wound does not, and the wound is not listed
C12_Witness ==
  /\ ~Unfiltered
  /\ \E r \in Range(reports) :
       /\ PassesFilters(r)
       /\ r \notin LatestSnapshots(r)
       /\ \A x \in LatestSnapshots(r) : ~PassesFilters(x)
       /\ \A p \in Range(processedReports) : ~SameWound(p, r)

\* the position of a stored report in the stored list
PositionOf(r) == CHOOSE i \in 1..Len(reports) : reports[i] = r

\* C13: among the snapshots of one wound that share the greatest createdAt,
\* the resolved list keeps the one that comes first in the stored list; for
\* a store that holds a single wound the unfiltered view is that snapshot.
C13_TieBreakByInputOrder ==
  /\ \A p \in Range(processedReports) : \A x \in Range(reports) :
       (SameWound(x, p) /\ x.createdAt = p.createdAt)
         => PositionOf(p) <= PositionOf(x)
  /\ (Unfiltered /\ reports # <<>>
        /\ \A x \in Range(reports) : SameWound(x, reports[1]))
       => \E p \in LatestSnapshots(reports[1]) :
            /\ processedReports = <<p>>
            /\ \A x \in LatestSnapshots(reports[1]) :
                 PositionOf(p) <= PositionOf(x)

\* two snapshots of one wound with the same createdAt and different stage
\* labels are stored, and under the staged filter the first of the two is
\* the one listed
C13_Witness ==
  /\ Len(reports) = 2
  /\ SameWound(reports[1], reports[2])
  /\ reports[1].createdAt = reports[2].createdAt
  /\ reports[1].typeStage # reports[2].typeStage
  /\ stageFilter = "staged"
  /\ processedReports = <<reports[1]>>

\* the ids of the stored reports
StoredIds == {reports[i].id : i \in 1..Len(reports)}

\* a step that takes a report out of the store
RemovesReport == \E i \in 1..Len(reports) :
  \A j \in 1..Len(reports') : reports'[j].id # reports[i].id

\* C14: a report leaves the store only in a confirmDelete step whose pending
\* reportToDelete names it, and a reportToDelete is only ever set by
\* handleDeleteClick of an ADMIN; handleDeleteClick of another role changes
\* neither reportToDelete nor the store, closing the modal clears
\* reportToDelete and keeps the store, and confirmDelete with nothing pending
\* changes nothing.
C14_DeleteOnlyAfterAdminSelection ==
  /\ [](reportToDelete # Null => currentUser = "ADMIN")
  /\ [][RemovesReport =>
          /\ confirmDelete
          /\ reportToDelete # Null
          /\ reports' = deleteReport(reports, reportToDelete[1].id)
          /\ reportToDelete' = Null]_vars
  /\ [][(reportToDelete' # Null /\ reportToDelete' # reportToDelete) =>
          /\ currentUser = "ADMIN"
          /\ reportToDelete'[1] \in Range(processedReports)
          /\ handleDeleteClick(reportToDelete'[1])]_vars
  /\ [][\A i \in 1..Len(processedReports) :
          (currentUser # "ADMIN" /\ handleDeleteClick(processedReports[i]))
            => UNCHANGED <<reportToDelete, reports>>]_vars
  /\ [][closeDeleteModal =>
          (reportToDelete' = Null /\ reports' = reports)]_vars
  /\ [][(confirmDelete /\ reportToDelete = Null) => UNCHANGED vars]_vars

\* an ADMIN has deleted the first of two persisted reports: the store holds
\* the second alone and nothing is pending
C14_Witness ==
  /\ currentUser = "ADMIN"
  /\ Len(reports) = 1
  /\ reports[1].id = 2
  /\ reports[1].createdAt \in PersistedTimes
  /\ reportToDelete = Null

\* C18: editingReport is non-null only while activeTab is NEW_REPORT;
\* handleEdit of a VIEWER changes neither editingReport nor activeTab, and
\* handleSaveReport leaves editingReport null and activeTab HISTORY.
C18_EditingOnlyOnNewReportTab ==
  /\ [](editingReport # Null => activeTab = "NEW_REPORT")
  /\ [][\A i \in 1..Len(processedReports) :
          (currentUser = "VIEWER" /\ handleEdit(processedReports[i]))
            => UNCHANGED <<editingReport, activeTab>>]_vars
  /\ [][(\E report \in SubmittedReports : handleSaveReport(report)) =>
          (editingReport' = Null /\ activeTab' = "HISTORY")]_vars

\* a NURSE has opened a stored report in the entry form
C18_Witness ==
  /\ currentUser = "NURSE"
  /\ editingReport # Null
  /\ editingReport[1] \in Range(reports)
  /\ activeTab = "NEW_REPORT"

\* the stage buckets a report passes
BucketsOf(r) == {stage \in StageBuckets : isMatchingStage(r, stage)}

\* C15: every deduplicated report passes exactly one of the six stage-bucket
\* predicates '1', '2', '3', '4', 'unstageable' and 'none'.
C15_ExactlyOneBucket ==
  \A r \in Range(Deduplicated) : Cardinality(BucketsOf(r)) = 1

\* the deduplicated wounds of the store that match a bucket
WoundsInBucket(stage) ==
  SelectSeq(Deduplicated, LAMBDA r : isMatchingStage(r, stage))

\* C16: on the dashboard, the count of a stage tile is the number of
\* deduplicated wounds of the store that match the bucket, whatever search
\* query and stage filter were set on the Records History tab.
C16_DashboardCountIgnoresFilters ==
  activeTab = "DASHBOARD" =>
    \A stage \in StageBuckets :
      Len(getStageReports(stage)) = Len(WoundsInBucket(stage))

\* C17: reports whose logical wound identities differ are never collapsed:
\* the unfiltered resolved list has one entry for every distinct identity of
\* the store, and reports with different identities have different keys.
C17_DistinctIdentitiesKept ==
  /\ \A a \in Range(reports) : \A b \in Range(reports) :
       LogicalWoundIdentity(a) # LogicalWoundIdentity(b)
         => woundKey(a) # woundKey(b)
  /\ Unfiltered =>
       Len(processedReports)
         = Cardinality({LogicalWoundIdentity(r) : r \in Range(reports)})

====
